---- MODULE Spec2Model ----
(***************************************************************************)
(* Model of the audio delay effects of frshdjfry/ase-2024:                 *)
(*   src/src/ring_buffer.rs   RingBuffer<T>                                *)
(*   src/src/comb_filter.rs   CombFilter (FIR / IIR)                       *)
(*   src/src/lfo.rs           LFO                                          *)
(*   src/src/vibrato.rs       Vibrato                                      *)
(*                                                                         *)
(* Number representation.  The code computes in f32.  Every quantity of    *)
(* the model is a dyadic rational small enough for f32 arithmetic on it to *)
(* be exact, and is held as an integer numerator:                          *)
(*   samples          in units of 1/Unit        (Unit is a power of two)   *)
(*   gains            in units of 1/GainOne                                *)
(*   times (seconds)  in units of 1/TicksPerSec                            *)
(*   LFO phases       in units of 1/PhaseOne                               *)
(*   sample rates and frequencies in Hz                                    *)
(***************************************************************************)
EXTENDS Integers, Sequences, FiniteSets, TLC

VARIABLES
    sut,        \* which object the caller holds: "ring", "comb" or "vibrato"
    rb,         \* the RingBuffer under test
    pushed,     \* values handed to push since new, in order
    popped,     \* values returned by pop since new, in order
    phase,      \* "pushing": only pushes so far; "popping": pushes then only pops; "mixed"
    calls,      \* calls made on the RingBuffer other than push and pop
    cf,         \* the CombFilter
    xs,         \* per channel: the samples fed to process since the epoch began
    ys,         \* per channel: the samples process returned since the epoch began
    epoch,      \* what began the epoch: "new", "reset" or "set_delay"
    steady,     \* TRUE while the gain has not changed since the epoch began
    fed,        \* samples fed per channel since construction
    vib,        \* the Vibrato, or NoVibrato before a successful Vibrato::new
    osc,        \* the LFO under test (an oscillator), or NoLfo before LFO::new
    ticks,      \* tick calls made on the LFO under test
    lastOp,     \* the last call made
    lastArg,    \* its arguments, a tuple
    lastRes,    \* what it returned
    panicked    \* TRUE once a call has panicked (the program has aborted)

ringVars == <<rb, pushed, popped, phase, calls>>
combVars == <<cf, xs, ys, epoch, steady, fed>>
vibVars  == <<vib, osc, ticks>>
callVars == <<lastOp, lastArg, lastRes>>
vars == <<sut, rb, pushed, popped, phase, calls, cf, xs, ys, epoch, steady, fed, vib,
          osc, ticks, lastOp, lastArg, lastRes, panicked>>

----------------------------------------------------------------------------
(* Bounds of the model *)

MaxCap == 3          \* largest RingBuffer capacity tried
MaxExtra == 2        \* pushes beyond capacity
MaxPush == MaxCap + MaxExtra
MaxPop == MaxCap + 1

GainBits == 1        \* gains are held in units of 1/2^GainBits
TickBits == 2        \* times are held in units of 1/2^TickBits seconds
MaxDelayTicks == 3   \* longest delay time tried, in ticks
MaxSamples == 4      \* samples fed per channel to one CombFilter
MaxBlock == 2        \* longest block handed to one process call
MaxParamSamples == 2 \* samples fed per channel where parameters are set too
MaxVibTicks == 2     \* longest vibrato delay and depth tried, in ticks
PhaseBits == 2       \* LFO phases are held in units of 1/2^PhaseBits
ImpulseDelayTicks == 4   \* longest delay time tried for the impulse response, in ticks
ImpulseLen == 10         \* length of the impulse signal of the filter-response test
FracBits == 1        \* fractional read offsets are held in units of 1/2^FracBits
SinBits == 3         \* wavetable samples are held in units of 1/2^SinBits
MaxTicks == 4        \* tick calls tried on one LFO
MaxLfoFreq == 5      \* highest LFO frequency tried, in Hz
MaxCalls == 5        \* longest sequence of calls tried on the whole RingBuffer API

GainOne == 2 ^ GainBits                 \* the gain 1.0
TicksPerSec == 2 ^ TickBits             \* the time 1.0 s
Unit == GainOne ^ MaxSamples            \* the sample 1.0: MaxSamples products by a gain stay exact
SampleRates == {2, 4}                   \* sample rates tried, in Hz
ChannelCounts == {0, 1, 2}              \* channel counts tried
FilterTypes == {"FIR", "IIR"}
SampleVals == {0, Unit}                 \* the samples a caller feeds
NewGains == {GainOne \div 2, GainOne, GainOne + GainOne \div 2}    \* 0.5, 1.0, 1.5
DelayTimes == 0..MaxDelayTicks
PhaseOne == 2 ^ PhaseBits               \* the phase 1.0
FracOne == 2 ^ FracBits                 \* the read offset 1.0
SinOne == 2 ^ SinBits                   \* the wavetable sample 1.0
ModOne == SinOne * GainOne              \* the modulation 1.0 (a wavetable sample times an amplitude)
TapOne == TicksPerSec * ModOne          \* the tap offset 1.0 (one sample)
LfoFreqs == (-1)..MaxLfoFreq            \* LFO frequencies tried, in Hz
VibTapTimes == 0..MaxVibTicks           \* vibrato delays and depths tried where process runs
VibSampleVals == {0, TapOne}            \* the samples fed to a Vibrato: 0.0 and 1.0
SetGainVals == {-(GainOne \div 2), 0, GainOne \div 2, GainOne, GainOne + GainOne \div 2}
SetDelayVals == (-1)..(MaxDelayTicks + 1)
VibTimes == (-1)..MaxVibTicks           \* vibrato delays and depths tried, in ticks
VibSetRates == {0, 2, 4}                \* values handed to set_param(SampleRate)
ModFreqs == {1, 2}                      \* modulation frequencies tried, in Hz
Amplitudes == {0, GainOne}              \* LFO amplitudes tried, in units of 1/GainOne
VibChannelCounts == {1, 2}

----------------------------------------------------------------------------
(* src/src/ring_buffer.rs.  buffer is a Vec: slot i of the code is          *)
(* buffer[i + 1] here.  T::default() is 0.                                  *)

RB_new(length) ==
    [buffer |-> [i \in 1..length |-> 0],
     read_index |-> 0,
     write_index |-> 0,
     capacity |-> length,
     size |-> 0]

\* reset that leaves write_index where it was
RB_reset_keeps_write(b) ==
    [b EXCEPT !.read_index = 0,
              !.size = 0,
              !.buffer = [i \in 1..Len(b.buffer) |-> 0]]

RB_reset(b) ==
    [b EXCEPT !.read_index = 0,
              !.write_index = 0,
              !.size = 0,
              !.buffer = [i \in 1..Len(b.buffer) |-> 0]]

RB_peek(b) == b.buffer[b.read_index + 1]

\* push that advances read_index whether the buffer is full or not
RB_push_always_evict(b, value) ==
    [b EXCEPT !.buffer[b.write_index + 1] = value,
              !.read_index = (b.read_index + 1) % b.capacity,
              !.size = IF b.size = b.capacity THEN b.size ELSE b.size + 1,
              !.write_index = (b.write_index + 1) % b.capacity]

\* push with the eviction left out: a full buffer keeps its read_index
RB_push_no_evict(b, value) ==
    [b EXCEPT !.buffer[b.write_index + 1] = value,
              !.size = IF b.size = b.capacity THEN b.size ELSE b.size + 1,
              !.write_index = (b.write_index + 1) % b.capacity]

RB_push(b, value) ==
    [b EXCEPT !.buffer[b.write_index + 1] = value,
              !.read_index = IF b.size = b.capacity
                             THEN (b.read_index + 1) % b.capacity
                             ELSE b.read_index,
              !.size = IF b.size = b.capacity THEN b.size ELSE b.size + 1,
              !.write_index = (b.write_index + 1) % b.capacity]

\* pop that takes the newest value instead of the oldest (a stack)
RB_pop_newest(b) ==
    IF b.size = 0
    THEN [value |-> 0, rb |-> b]
    ELSE [value |-> b.buffer[((b.write_index + b.capacity - 1) % b.capacity) + 1],
          rb |-> [b EXCEPT !.write_index = (b.write_index + b.capacity - 1) % b.capacity,
                           !.size = b.size - 1]]

\* pop that leaves len as it was
RB_pop_keeps_len(b) ==
    IF b.size = 0
    THEN [value |-> 0, rb |-> b]
    ELSE [value |-> b.buffer[b.read_index + 1],
          rb |-> [b EXCEPT !.read_index = (b.read_index + 1) % b.capacity]]

\* pop returns the value and leaves the buffer: [value, buffer]
RB_pop(b) ==
    IF b.size = 0
    THEN [value |-> 0, rb |-> b]
    ELSE [value |-> b.buffer[b.read_index + 1],
          rb |-> [b EXCEPT !.read_index = (b.read_index + 1) % b.capacity,
                           !.size = b.size - 1]]

RB_len(b) == b.size

RB_capacity(b) == b.capacity

\* A slot access buffer[i] panics when i is out of bounds, and % capacity
\* panics when capacity is 0.
RB_push_panics(b) == b.write_index >= Len(b.buffer) \/ b.capacity = 0

RB_peek_panics(b) == b.read_index >= Len(b.buffer)

RB_pop_panics(b) == b.size # 0 /\ (b.read_index >= Len(b.buffer) \/ b.capacity = 0)

----------------------------------------------------------------------------
(* Values that stand for "no object" and "no call yet" *)

NoRing == [buffer |-> <<>>, read_index |-> 0, write_index |-> 0, capacity |-> 0, size |-> 0]
NoComb == [filter_type |-> "none"]
NoVibrato == [state |-> "none"]
NoLfo == [state |-> "none"]

\* What a call returned: kind is "none" (no call yet), "unit" (no value), "value"
\* (value holds it), "Ok", "Err" (param and value hold the error's fields) or
\* "panic".
Res(kind, param, value) == [kind |-> kind, param |-> param, value |-> value]
ResNone == Res("none", "", 0)
ResUnit == Res("unit", "", 0)
ResValue(value) == Res("value", "", value)
ResOk == Res("Ok", "", 0)
ResPanic == Res("panic", "", 0)

IdleRing == rb = NoRing /\ pushed = <<>> /\ popped = <<>> /\ phase = "pushing" /\ calls = 0
IdleComb == cf = NoComb /\ xs = <<>> /\ ys = <<>> /\ epoch = "new" /\ steady = TRUE /\ fed = 0
IdleVibrato == vib = NoVibrato /\ osc = NoLfo /\ ticks = 0
IdleCall == lastOp = "none" /\ lastArg = <<>> /\ lastRes = ResNone

----------------------------------------------------------------------------
(* Conversions of the code's f32 arithmetic *)

\* gain * sample: gain is in units of 1/GainOne
MulGain(gain, sample) == (gain * sample) \div GainOne

\* (secs * rate) as usize: the product is truncated toward zero and a
\* negative product saturates to 0.  time is in ticks, rate in Hz.
AsUsize(time, rate) ==
    IF time * rate <= 0 THEN 0 ELSE (time * rate) \div TicksPerSec

\* the mathematical floor of secs * rate
Floor(time, rate) == (time * rate) \div TicksPerSec

----------------------------------------------------------------------------
(* src/src/comb_filter.rs *)

CombFilter_new(filter_type, max_delay_secs, sample_rate_hz, num_channels, gain) ==
    LET delay_samples == AsUsize(max_delay_secs, sample_rate_hz)
    IN  [filter_type |-> filter_type,
         delay_lines |-> [c \in 1..num_channels |-> RB_new(delay_samples)],
         gain |-> gain,
         sample_rate |-> sample_rate_hz,
         buffer |-> [c \in 1..num_channels |-> [i \in 1..delay_samples |-> 0]],
         buffer_index |-> 0]

CombFilter_reset(f) ==
    [f EXCEPT !.buffer = [c \in 1..Len(f.buffer) |-> [i \in 1..Len(f.buffer[c]) |-> 0]],
              !.buffer_index = 0]

\* the value process pushes into the delay line: the input (FIR) or the output (IIR)
CombPushValue_always_output(filter_type, input_sample, output_sample) == output_sample

CombPushValue(filter_type, input_sample, output_sample) ==
    IF filter_type = "FIR" THEN input_sample ELSE output_sample

\* one pass of the inner loop with the push made before the peek
CombSample_push_first(filter_type, gain, delay_line, input_sample) ==
    LET pushed_line == RB_push(delay_line, input_sample)
    IN  [line |-> pushed_line,
         out |-> input_sample + MulGain(gain, RB_peek(pushed_line))]

\* one pass of the inner loop of process: [line: the delay line after, out: the output sample]
CombSample(filter_type, gain, delay_line, input_sample) ==
    LET delayed_sample == RB_peek(delay_line)
        output_sample == input_sample + MulGain(gain, delayed_sample)
    IN  [line |-> RB_push(delay_line, CombPushValue(filter_type, input_sample, output_sample)),
         out |-> output_sample]

\* the inner loop over one channel's block, from sample k on
RECURSIVE CombChannelFrom(_, _, _, _, _)
CombChannelFrom(filter_type, gain, acc, input_channel, k) ==
    IF k > Len(input_channel)
    THEN acc
    ELSE LET s == CombSample(filter_type, gain, acc.line, input_channel[k])
         IN  CombChannelFrom(filter_type, gain,
                             [line |-> s.line, out |-> Append(acc.out, s.out)],
                             input_channel, k + 1)

CombChannel(filter_type, gain, delay_line, input_channel) ==
    CombChannelFrom(filter_type, gain, [line |-> delay_line, out |-> <<>>], input_channel, 1)

\* process that starts every block on an emptied delay line
CombFilter_process_fresh_lines(f, input) ==
    LET run(c) == CombChannel(f.filter_type, f.gain,
                              RB_new(f.delay_lines[c].capacity), input[c])
    IN  [cf |-> [f EXCEPT !.delay_lines =
                    [c \in 1..Len(f.delay_lines) |->
                        IF c <= Len(input) THEN run(c).line ELSE f.delay_lines[c]]],
         output |-> [c \in 1..Len(input) |-> run(c).out]]

\* process that feeds each channel the input of the channel opposite to it
CombFilter_process_swapped(f, input) ==
    LET run(c) == CombChannel(f.filter_type, f.gain, f.delay_lines[c],
                              input[Len(input) + 1 - c])
    IN  [cf |-> [f EXCEPT !.delay_lines =
                    [c \in 1..Len(f.delay_lines) |->
                        IF c <= Len(input) THEN run(c).line ELSE f.delay_lines[c]]],
         output |-> [c \in 1..Len(input) |-> run(c).out]]

\* process: [cf: the filter after, output: the output channels]
CombFilter_process(f, input) ==
    LET run(c) == CombChannel(f.filter_type, f.gain, f.delay_lines[c], input[c])
    IN  [cf |-> [f EXCEPT !.delay_lines =
                    [c \in 1..Len(f.delay_lines) |->
                        IF c <= Len(input) THEN run(c).line ELSE f.delay_lines[c]]],
         output |-> [c \in 1..Len(input) |-> run(c).out]]

\* process panics on the first sample of a channel whose delay line has no slot
CombFilter_process_panics(f, input) ==
    \E c \in 1..Len(input) : input[c] # <<>> /\ RB_peek_panics(f.delay_lines[c])

ResInvalidValue(param, value) == Res("Err", param, value)

\* set_param(Gain) that turns 0.0 away
CombFilter_set_gain_excl_zero(f, value) ==
    IF value > 0 /\ value <= GainOne
    THEN [cf |-> [f EXCEPT !.gain = value], res |-> ResOk]
    ELSE [cf |-> f, res |-> ResInvalidValue("Gain", value)]

\* set_param(FilterParam::Gain, value): [cf: the filter after, res: the result]
CombFilter_set_gain(f, value) ==
    IF value >= 0 /\ value <= GainOne
    THEN [cf |-> [f EXCEPT !.gain = value], res |-> ResOk]
    ELSE [cf |-> f, res |-> ResInvalidValue("Gain", value)]

\* set_param(Delay) that turns the current capacity itself away
CombFilter_set_delay_strict(f, value) ==
    LET delay_samples == AsUsize(value, f.sample_rate)
    IN  IF delay_samples > 0 /\ delay_samples < RB_capacity(f.delay_lines[1])
        THEN [cf |-> [f EXCEPT !.delay_lines =
                        [c \in 1..Len(f.delay_lines) |-> RB_new(delay_samples)]],
              res |-> ResOk]
        ELSE [cf |-> f, res |-> ResInvalidValue("Delay", value)]

\* set_param(Delay) that stores the new lines before it validates
CombFilter_set_delay_store_first(f, value) ==
    LET delay_samples == AsUsize(value, f.sample_rate)
        stored == [f EXCEPT !.delay_lines =
                        [c \in 1..Len(f.delay_lines) |-> RB_new(delay_samples)]]
    IN  IF delay_samples > 0 /\ delay_samples <= RB_capacity(f.delay_lines[1])
        THEN [cf |-> stored, res |-> ResOk]
        ELSE [cf |-> stored, res |-> ResInvalidValue("Delay", value)]

\* set_param(Delay) that empties the delay lines and keeps their capacity
CombFilter_set_delay_keeps_capacity(f, value) ==
    LET delay_samples == AsUsize(value, f.sample_rate)
    IN  IF delay_samples > 0 /\ delay_samples <= RB_capacity(f.delay_lines[1])
        THEN [cf |-> [f EXCEPT !.delay_lines =
                        [c \in 1..Len(f.delay_lines) |-> RB_reset(f.delay_lines[c])]],
              res |-> ResOk]
        ELSE [cf |-> f, res |-> ResInvalidValue("Delay", value)]

\* set_param(FilterParam::Delay, value): [cf: the filter after, res: the result]
CombFilter_set_delay(f, value) ==
    LET delay_samples == AsUsize(value, f.sample_rate)
    IN  IF delay_samples > 0 /\ delay_samples <= RB_capacity(f.delay_lines[1])
        THEN [cf |-> [f EXCEPT !.delay_lines =
                        [c \in 1..Len(f.delay_lines) |-> RB_new(delay_samples)]],
              res |-> ResOk]
        ELSE [cf |-> f, res |-> ResInvalidValue("Delay", value)]

\* set_param(Delay) indexes delay_lines[0]: it panics on a filter of no channel
CombFilter_set_delay_panics(f) == Len(f.delay_lines) = 0

----------------------------------------------------------------------------
(* src/src/lfo.rs.  The wavetable is written once by new (one period of a   *)
(* sine, wavetable_size samples) and no call changes it afterwards; the     *)
(* record holds its size.                                                   *)

\* frequency / sample_rate, in units of 1/PhaseOne
PhaseIncrement(frequency, sample_rate) == (frequency * PhaseOne) \div sample_rate

LFO_new(frequency, amplitude, sample_rate, wavetable_size) ==
    [wavetable_size |-> wavetable_size,
     phase_increment |-> PhaseIncrement(frequency, sample_rate),
     current_phase |-> 0,
     amplitude |-> amplitude,
     sample_rate |-> sample_rate]

LFO_set_frequency(lfo, frequency) ==
    [lfo EXCEPT !.phase_increment = PhaseIncrement(frequency, lfo.sample_rate)]

LFO_reset(lfo) == [lfo EXCEPT !.current_phase = 0]

LFO_set_amplitude(lfo, amplitude) == [lfo EXCEPT !.amplitude = amplitude]

----------------------------------------------------------------------------
(* src/src/vibrato.rs *)

WAVETABLESIZE == 1024

\* (secs * rate).round() as usize: round half away from zero, a negative
\* value saturates to 0
RoundUsize(time, rate) ==
    IF time * rate <= 0 THEN 0
    ELSE (2 * time * rate + TicksPerSec) \div (2 * TicksPerSec)

ResErrString(message) == Res("Err", message, 0)

VibratoBuilt(sample_rate, delay, depth, mod_freq, amplitude, channels) ==
    LET delay_samples == RoundUsize(delay, sample_rate)
        depth_samples == RoundUsize(depth, sample_rate)
        total_size == 2 + delay_samples + depth_samples * 2
    IN  [delay_lines |-> [c \in 1..channels |-> RB_new(total_size)],
         lfos |-> [c \in 1..channels |-> LFO_new(mod_freq, amplitude, sample_rate, WAVETABLESIZE)],
         sample_rate |-> sample_rate,
         delay |-> delay,
         depth |-> depth]

\* new that turns depth = delay away too
Vibrato_new_strict(sample_rate, delay, depth, mod_freq, amplitude, channels) ==
    IF delay <= depth
    THEN [vib |-> NoVibrato,
          res |-> ResErrString("Delay must be greater than or equal to depth")]
    ELSE [vib |-> VibratoBuilt(sample_rate, delay, depth, mod_freq, amplitude, channels),
          res |-> ResOk]

\* Vibrato::new: [vib: the Vibrato or NoVibrato, res: Ok or the Err]
Vibrato_new(sample_rate, delay, depth, mod_freq, amplitude, channels) ==
    IF delay < depth
    THEN [vib |-> NoVibrato,
          res |-> ResErrString("Delay must be greater than or equal to depth")]
    ELSE [vib |-> VibratoBuilt(sample_rate, delay, depth, mod_freq, amplitude, channels),
          res |-> ResOk]

\* set_param that stores any depth
Vibrato_set_param_any_depth(v, param, value) ==
    CASE param = "SampleRate" ->
            [vib |-> [v EXCEPT !.sample_rate = value], res |-> ResOk]
      [] param = "Delay" ->
            IF value < v.depth
            THEN [vib |-> v, res |-> ResErrString("Delay must be greater than or equal to depth")]
            ELSE [vib |-> [v EXCEPT !.delay = value], res |-> ResOk]
      [] param = "Depth" ->
            [vib |-> [v EXCEPT !.depth = value], res |-> ResOk]
      [] param = "ModulationFrequency" ->
            [vib |-> [v EXCEPT !.lfos = [c \in 1..Len(v.lfos) |-> LFO_set_frequency(v.lfos[c], value)]],
             res |-> ResOk]

\* Vibrato::set_param: [vib: the Vibrato after, res: the result]
Vibrato_set_param(v, param, value) ==
    CASE param = "SampleRate" ->
            [vib |-> [v EXCEPT !.sample_rate = value], res |-> ResOk]
      [] param = "Delay" ->
            IF value < v.depth
            THEN [vib |-> v, res |-> ResErrString("Delay must be greater than or equal to depth")]
            ELSE [vib |-> [v EXCEPT !.delay = value], res |-> ResOk]
      [] param = "Depth" ->
            IF value > v.delay
            THEN [vib |-> v, res |-> ResErrString("Depth must be less than or equal to delay")]
            ELSE [vib |-> [v EXCEPT !.depth = value], res |-> ResOk]
      [] param = "ModulationFrequency" ->
            [vib |-> [v EXCEPT !.lfos = [c \in 1..Len(v.lfos) |-> LFO_set_frequency(v.lfos[c], value)]],
             res |-> ResOk]

----------------------------------------------------------------------------
(* The RingBuffer driven by a caller: RingBuffer::new(C), then push and pop *)

InitRing ==
    /\ sut = "ring"
    /\ \E length \in 0..MaxCap : rb = RB_new(length)
    /\ pushed = <<>> /\ popped = <<>> /\ phase = "pushing" /\ calls = 0
    /\ IdleComb /\ IdleVibrato /\ IdleCall
    /\ panicked = FALSE

\* the values a caller pushes: a fresh one (distinct from all before), or 0
PushVals == {0, Len(pushed) + 1}

Push(value) ==
    /\ sut = "ring" /\ ~panicked
    /\ Len(pushed) < MaxPush
    /\ lastOp' = "push" /\ lastArg' = <<value>>
    /\ IF RB_push_panics(rb)
       THEN /\ panicked' = TRUE
            /\ lastRes' = ResPanic
            /\ UNCHANGED ringVars
       ELSE /\ rb' = RB_push(rb, value)
            /\ pushed' = Append(pushed, value)
            /\ phase' = IF phase = "pushing" THEN "pushing" ELSE "mixed"
            /\ lastRes' = ResUnit
            /\ UNCHANGED <<popped, calls, panicked>>
    /\ UNCHANGED <<sut, combVars, vibVars>>

Pop ==
    /\ sut = "ring" /\ ~panicked
    /\ Len(popped) < MaxPop
    /\ lastOp' = "pop" /\ lastArg' = <<>>
    /\ IF RB_pop_panics(rb)
       THEN /\ panicked' = TRUE
            /\ lastRes' = ResPanic
            /\ UNCHANGED ringVars
       ELSE /\ rb' = RB_pop(rb).rb
            /\ popped' = Append(popped, RB_pop(rb).value)
            /\ phase' = IF phase = "mixed" THEN "mixed" ELSE "popping"
            /\ lastRes' = ResValue(RB_pop(rb).value)
            /\ UNCHANGED <<pushed, calls, panicked>>
    /\ UNCHANGED <<sut, combVars, vibVars>>

NextRing ==
    \/ \E value \in PushVals : Push(value)
    \/ Pop

SpecRing == InitRing /\ [][NextRing]_vars

----------------------------------------------------------------------------
(* C1: for every capacity C >= 1, after C + k pushes (k >= 0) followed only *)
(* by pops, the j-th pop (j <= C) returned the j-th of the last C pushed    *)
(* values: C pops return exactly the last C pushed values in push order.    *)

LastPushed(n) == SubSeq(pushed, Len(pushed) - n + 1, Len(pushed))

C1_PushThenPopIsFifo ==
    (sut = "ring" /\ phase = "popping" /\ rb.capacity >= 1
        /\ Len(pushed) >= rb.capacity /\ Len(popped) <= rb.capacity)
    => popped = SubSeq(LastPushed(rb.capacity), 1, Len(popped))

\* capacity 3, five distinct values pushed, three popped (test_wrap_around)
C1_Witness ==
    /\ sut = "ring" /\ phase = "popping"
    /\ rb.capacity = 3
    /\ pushed = <<1, 2, 3, 4, 5>>
    /\ popped = <<3, 4, 5>>

----------------------------------------------------------------------------
(* The CombFilter driven by a caller.  The state after construction:       *)
(* CombFilter::new(filter_type, max_delay_secs, sample_rate_hz,            *)
(* num_channels, gain); new validates nothing.                             *)

EmptyChannels(n) == [c \in 1..n |-> <<>>]

InitCombWith(delays, gains) ==
    /\ sut = "comb"
    /\ \E filter_type \in FilterTypes, max_delay_secs \in delays,
          sample_rate_hz \in SampleRates, num_channels \in ChannelCounts, gain \in gains :
          /\ cf = CombFilter_new(filter_type, max_delay_secs, sample_rate_hz, num_channels, gain)
          /\ xs = EmptyChannels(num_channels)
          /\ ys = EmptyChannels(num_channels)
    /\ epoch = "new" /\ steady = TRUE /\ fed = 0
    /\ IdleRing /\ IdleVibrato /\ IdleCall
    /\ panicked = FALSE

InitComb == InitCombWith(DelayTimes, NewGains)

\* the blocks a caller hands to process: n channels of one length
Blocks(n, lens, vals) ==
    IF n = 0 THEN {<<>>} ELSE UNION {[1..n -> [1..len -> vals]] : len \in lens}

BlockLen(input) == IF input = <<>> THEN 0 ELSE Len(input[1])

Process(input) ==
    /\ sut = "comb" /\ ~panicked
    /\ Len(input) = Len(cf.delay_lines)
    /\ lastOp' = "process" /\ lastArg' = <<BlockLen(input)>>
    /\ IF CombFilter_process_panics(cf, input)
       THEN /\ panicked' = TRUE
            /\ lastRes' = ResPanic
            /\ UNCHANGED combVars
       ELSE /\ cf' = CombFilter_process(cf, input).cf
            /\ xs' = [c \in 1..Len(xs) |-> xs[c] \o input[c]]
            /\ ys' = [c \in 1..Len(ys) |-> ys[c] \o CombFilter_process(cf, input).output[c]]
            /\ fed' = fed + BlockLen(input)
            /\ lastRes' = ResUnit
            /\ UNCHANGED <<epoch, steady, panicked>>
    /\ UNCHANGED <<sut, ringVars, vibVars>>

Reset ==
    /\ sut = "comb" /\ ~panicked
    /\ cf' = CombFilter_reset(cf)
    /\ epoch' = "reset" /\ steady' = TRUE
    /\ xs' = EmptyChannels(Len(xs)) /\ ys' = EmptyChannels(Len(ys))
    /\ lastOp' = "reset" /\ lastArg' = <<>> /\ lastRes' = ResUnit
    /\ UNCHANGED <<fed, panicked, sut, ringVars, vibVars>>

SetGain(value) ==
    /\ sut = "comb" /\ ~panicked
    /\ lastOp' = "set_param(Gain)" /\ lastArg' = <<value>>
    /\ cf' = CombFilter_set_gain(cf, value).cf
    /\ lastRes' = CombFilter_set_gain(cf, value).res
    /\ steady' = (steady /\ cf'.gain = cf.gain)
    /\ UNCHANGED <<xs, ys, epoch, fed, panicked, sut, ringVars, vibVars>>

SetDelay(value) ==
    /\ sut = "comb" /\ ~panicked
    /\ lastOp' = "set_param(Delay)" /\ lastArg' = <<value>>
    /\ IF CombFilter_set_delay_panics(cf)
       THEN /\ panicked' = TRUE
            /\ lastRes' = ResPanic
            /\ UNCHANGED combVars
       ELSE /\ cf' = CombFilter_set_delay(cf, value).cf
            /\ lastRes' = CombFilter_set_delay(cf, value).res
            /\ IF CombFilter_set_delay(cf, value).res = ResOk
               THEN /\ epoch' = "set_delay" /\ steady' = TRUE
                    /\ xs' = EmptyChannels(Len(xs)) /\ ys' = EmptyChannels(Len(ys))
               ELSE UNCHANGED <<epoch, steady, xs, ys>>
            /\ UNCHANGED <<fed, panicked>>
    /\ UNCHANGED <<sut, ringVars, vibVars>>

ProcessLens(limit) ==
    {len \in 1..MaxBlock : fed + len <= limit}

NextComb ==
    \/ /\ sut = "comb"
       /\ \E input \in Blocks(Len(cf.delay_lines), ProcessLens(MaxSamples), SampleVals) :
             Process(input)
    \/ Reset

SpecComb == InitComb /\ [][NextComb]_vars

----------------------------------------------------------------------------
(* The filter-response test of main.rs: a filter of gain 1.0 fed a unit     *)
(* impulse followed by zeros, in blocks of any lengths.                     *)

ImpulseSample(k) == IF k = 1 THEN Unit ELSE 0

InitImpulse == InitCombWith(0..ImpulseDelayTicks, {GainOne})

ProcessImpulse(len) ==
    /\ sut = "comb"
    /\ fed + len <= ImpulseLen
    /\ Process([c \in 1..Len(cf.delay_lines) |-> [i \in 1..len |-> ImpulseSample(fed + i)]])

NextImpulse == \E len \in 1..ImpulseLen : ProcessImpulse(len)

SpecImpulse == InitImpulse /\ [][NextImpulse]_vars

----------------------------------------------------------------------------
(* Reference values the claims compare against *)

\* the output of one process call on the whole of xs[c] by a freshly
\* constructed filter of the current type, gain and delay
FreshOutput(c) ==
    CombChannel(cf.filter_type, cf.gain, RB_new(cf.delay_lines[c].capacity), xs[c]).out

At(seq, n) == IF n >= 1 /\ n <= Len(seq) THEN seq[n] ELSE 0

AllZeroFresh(line) == line = RB_new(line.capacity)

----------------------------------------------------------------------------
(* C2: a freshly constructed CombFilter fed a signal in consecutive blocks  *)
(* of any sizes has returned, concatenated, what one process call on the    *)
(* whole signal returns.                                                    *)

C2_BlockSizeInvariance ==
    (sut = "comb" /\ epoch = "new" /\ steady)
    => \A c \in 1..Len(xs) : ys[c] = FreshOutput(c)

\* an IIR filter of delay 1 fed <<1, 0, 1>> as a block of 2 and a block of 1
C2_Witness ==
    /\ sut = "comb" /\ epoch = "new"
    /\ cf.filter_type = "IIR" /\ Len(xs) = 2
    /\ cf.delay_lines[1].capacity = 1
    /\ xs[1] = <<Unit, 0, Unit>>
    /\ lastOp = "process" /\ lastArg = <<1>>
    /\ ys[1][3] # Unit

----------------------------------------------------------------------------
(* C3: from construction, FIR y[n] = x[n] + gain * x[n-D] and               *)
(* IIR y[n] = x[n] + gain * y[n-D], D the delay-line capacity, with x, y    *)
(* taken as 0 before the first sample.                                      *)

C3_DelayedSum ==
    (sut = "comb" /\ epoch = "new" /\ steady)
    => \A c \in 1..Len(xs) : \A n \in 1..Len(ys[c]) :
          LET D == cf.delay_lines[c].capacity
          IN  ys[c][n] = xs[c][n] + MulGain(cf.gain,
                            IF cf.filter_type = "FIR" THEN At(xs[c], n - D) ELSE At(ys[c], n - D))

----------------------------------------------------------------------------
(* C4 as stated: gain 1.0, delay 1 sample, the single block                 *)
(* <<1,0,0,0,0,0,0,0,0,0>>: FIR returns <<1,1,1,1,1,0,0,0,0,0>> and IIR     *)
(* returns <<1,1,1,1,1,1,1,1,1,1>>.                                         *)

SingleImpulseBlock ==
    /\ sut = "comb" /\ cf.gain = GainOne
    /\ lastOp = "process" /\ lastArg = <<ImpulseLen>> /\ fed = ImpulseLen

ExpectedFir == <<Unit, Unit, Unit, Unit, Unit, 0, 0, 0, 0, 0>>
ExpectedIir == <<Unit, Unit, Unit, Unit, Unit, Unit, Unit, Unit, Unit, Unit>>

ImpulseResponseAt(D) ==
    \A c \in 1..Len(ys) :
        (SingleImpulseBlock /\ cf.delay_lines[c].capacity = D)
        => ys[c] = IF cf.filter_type = "FIR" THEN ExpectedFir ELSE ExpectedIir

C4_ImpulseDelayOne == ImpulseResponseAt(1)

\* C4 amended: the same with a delay of 4 samples (the test's 0.0001 s at 44100 Hz)
C4_ImpulseDelayFour == ImpulseResponseAt(4)

C4_Witness ==
    /\ SingleImpulseBlock /\ Len(ys) >= 1
    /\ cf.filter_type = "FIR"
    /\ cf.delay_lines[1].capacity = 4
    /\ ys[1] = ExpectedFir

----------------------------------------------------------------------------
(* C5: a freshly constructed CombFilter of gain 1 and delay-line capacity   *)
(* D >= 1 fed a unit impulse followed by zeros: the FIR output is 1 at the  *)
(* sample indices 0..D and 0 at every later index; the IIR output is 1 at   *)
(* every index.  (ys[c][n] is the sample of index n - 1.)                   *)

C5_ImpulseResponse ==
    (sut = "comb" /\ cf.gain = GainOne)
    => \A c \in 1..Len(ys) : \A n \in 1..Len(ys[c]) :
          ys[c][n] = IF cf.filter_type = "FIR" /\ n - 1 > cf.delay_lines[c].capacity
                     THEN 0 ELSE Unit

\* FIR, D = 3, the ten samples fed in more than one block
C5_Witness ==
    /\ sut = "comb" /\ Len(ys) >= 1
    /\ cf.filter_type = "FIR" /\ cf.delay_lines[1].capacity = 3
    /\ fed = ImpulseLen /\ lastArg # <<ImpulseLen>>
    /\ ys[1] = <<Unit, Unit, Unit, Unit, 0, 0, 0, 0, 0, 0>>

----------------------------------------------------------------------------
(* C6: after reset() every channel's delay line has all slots zero and      *)
(* read_index = write_index = len = 0, gain and capacity being unchanged,   *)
(* and what process returns after reset() is what a freshly constructed     *)
(* filter of the same delay and gain returns.                               *)

C6_ResetClearsDelayLines ==
    (sut = "comb" /\ epoch = "reset" /\ steady)
    => /\ lastOp = "reset" => \A c \in 1..Len(cf.delay_lines) : AllZeroFresh(cf.delay_lines[c])
       /\ \A c \in 1..Len(xs) : ys[c] = FreshOutput(c)

----------------------------------------------------------------------------
(* The Vibrato driven by a caller: Vibrato::new, then set_param *)

InitVibrato ==
    /\ sut = "vibrato"
    /\ IdleRing /\ IdleComb /\ IdleVibrato /\ IdleCall
    /\ panicked = FALSE

VNew(sample_rate, delay, depth, mod_freq, amplitude, channels) ==
    /\ sut = "vibrato" /\ ~panicked
    /\ lastOp = "none"
    /\ lastOp' = "Vibrato::new"
    /\ lastArg' = <<sample_rate, delay, depth, mod_freq, amplitude, channels>>
    /\ vib' = Vibrato_new(sample_rate, delay, depth, mod_freq, amplitude, channels).vib
    /\ lastRes' = Vibrato_new(sample_rate, delay, depth, mod_freq, amplitude, channels).res
    /\ UNCHANGED <<sut, panicked, ringVars, combVars, osc, ticks>>

VibratoParams == {"SampleRate", "Delay", "Depth", "ModulationFrequency"}

VSetParam(param, value) ==
    /\ sut = "vibrato" /\ ~panicked
    /\ vib # NoVibrato
    /\ lastOp' = "Vibrato::set_param" /\ lastArg' = <<param, value>>
    /\ vib' = Vibrato_set_param(vib, param, value).vib
    /\ lastRes' = Vibrato_set_param(vib, param, value).res
    /\ UNCHANGED <<sut, panicked, ringVars, combVars, osc, ticks>>

----------------------------------------------------------------------------
(* Either effect under parameter calls: a CombFilter under process, reset   *)
(* and set_param, or a Vibrato under new and set_param.                     *)

InitParam == InitComb \/ InitVibrato

NextParam ==
    \/ /\ sut = "comb"
       /\ \E input \in Blocks(Len(cf.delay_lines), {len \in {1} : fed < MaxParamSamples}, {Unit}) :
             Process(input)
    \/ Reset
    \/ \E value \in SetGainVals : SetGain(value)
    \/ \E value \in SetDelayVals : SetDelay(value)
    \/ \E sample_rate \in SampleRates, delay \in VibTimes, depth \in VibTimes,
          mod_freq \in ModFreqs, amplitude \in Amplitudes, channels \in VibChannelCounts :
          VNew(sample_rate, delay, depth, mod_freq, amplitude, channels)
    \/ \E value \in VibSetRates : VSetParam("SampleRate", value)
    \/ \E value \in VibTimes : VSetParam("Delay", value)
    \/ \E value \in VibTimes : VSetParam("Depth", value)
    \/ \E value \in ModFreqs : VSetParam("ModulationFrequency", value)

SpecParam == InitParam /\ [][NextParam]_vars

----------------------------------------------------------------------------
(* C7: set_param(Delay, v) succeeds iff floor(v * sample_rate) lies in      *)
(* (0, current delay-line capacity]; on success every channel's delay line  *)
(* is a fresh one of that capacity; otherwise it returns InvalidValue       *)
(* carrying Delay and v.  (A filter of no channel has no delay-line         *)
(* capacity: there the call panics.)                                        *)

C7_SetDelay ==
    [][(sut = "comb" /\ lastOp' = "set_param(Delay)" /\ ~panicked')
       => LET value == lastArg'[1]
              count == Floor(value, cf.sample_rate)
          IN  IF count > 0 /\ count <= cf.delay_lines[1].capacity
              THEN /\ lastRes' = ResOk
                   /\ Len(cf'.delay_lines) = Len(cf.delay_lines)
                   /\ \A c \in 1..Len(cf'.delay_lines) : cf'.delay_lines[c] = RB_new(count)
              ELSE lastRes' = ResInvalidValue("Delay", value)]_vars

\* a two-channel filter that has processed a sample is given a delay equal
\* to its capacity: accepted, and both lines are fresh
C7_Witness ==
    /\ sut = "comb" /\ lastOp = "set_param(Delay)" /\ lastRes = ResOk
    /\ Len(cf.delay_lines) = 2 /\ fed > 0
    /\ epoch = "set_delay"
    /\ cf.delay_lines[1] = RB_new(2) /\ cf.delay_lines[2] = RB_new(2)
    /\ Floor(lastArg[1], cf.sample_rate) = 2

----------------------------------------------------------------------------
(* C8: set_param(Gain, v) succeeds and stores v iff 0 <= v <= 1, and        *)
(* otherwise returns InvalidValue carrying Gain and v; a gain in [0, 1]     *)
(* stays in [0, 1] whatever is called.                                      *)

GainInRange(gain) == gain >= 0 /\ gain <= GainOne

C8_SetGain ==
    [][sut = "comb"
       => /\ GainInRange(cf.gain) => GainInRange(cf'.gain)
          /\ lastOp' = "set_param(Gain)"
             => LET value == lastArg'[1]
                IN  IF GainInRange(value)
                    THEN lastRes' = ResOk /\ cf'.gain = value
                    ELSE lastRes' = ResInvalidValue("Gain", value)]_vars

\* the gain was set to 0.0 and a later set_param(Gain, -0.5) was turned away
C8_Witness ==
    /\ sut = "comb" /\ lastOp = "set_param(Gain)"
    /\ lastRes = ResInvalidValue("Gain", -(GainOne \div 2))
    /\ cf.gain = 0

----------------------------------------------------------------------------
(* C9: a set_param call that returns an error, on CombFilter or on Vibrato, *)
(* leaves the whole state of the effect as it was.                          *)

SetParamCalls == {"set_param(Gain)", "set_param(Delay)", "Vibrato::set_param"}

C9_ErrorLeavesState ==
    [][(lastOp' \in SetParamCalls /\ lastRes'.kind = "Err")
       => (cf' = cf /\ vib' = vib)]_vars

\* a CombFilter whose delay line holds a sample turns a delay of 0 samples away
C9_Witness ==
    /\ sut = "comb" /\ lastOp = "set_param(Delay)" /\ lastRes.kind = "Err"
    /\ Len(cf.delay_lines) >= 1
    /\ cf.delay_lines[1].size > 0
    /\ cf.delay_lines[1].buffer[1] = Unit

----------------------------------------------------------------------------
(* C10: Vibrato::new returns an error and no Vibrato whenever depth > delay *)
(* and Ok whenever depth <= delay.                                          *)

C10_NewValidatesDepth ==
    [][lastOp' = "Vibrato::new"
       => LET delay == lastArg'[2]
              depth == lastArg'[3]
          IN  IF depth > delay
              THEN lastRes'.kind = "Err" /\ vib' = NoVibrato
              ELSE lastRes' = ResOk /\ vib' # NoVibrato
                   /\ vib'.delay = delay /\ vib'.depth = depth]_vars

\* depth = delay is accepted
C10_Witness ==
    /\ sut = "vibrato" /\ lastOp = "Vibrato::new" /\ lastRes = ResOk
    /\ vib # NoVibrato
    /\ lastArg[2] = 1 /\ lastArg[3] = 1

----------------------------------------------------------------------------
(* src/src/ring_buffer.rs, the rest of the API: put, get and the cursor     *)
(* setters.                                                                 *)

\* put writes at write_index and moves no cursor
RB_put(b, value) == [b EXCEPT !.buffer[b.write_index + 1] = value]

\* get without the read cursor: the slot of absolute index offset
RB_get_absolute(b, offset) == b.buffer[(offset % b.capacity) + 1]

\* get that reads one slot further
RB_get_next(b, offset) == b.buffer[((b.read_index + offset + 1) % b.capacity) + 1]

RB_get(b, offset) == b.buffer[((b.read_index + offset) % b.capacity) + 1]

\* set_read_index without the modulo
RB_set_read_index_raw(b, index) == [b EXCEPT !.read_index = index]

RB_set_read_index(b, index) == [b EXCEPT !.read_index = index % b.capacity]

RB_set_write_index(b, index) == [b EXCEPT !.write_index = index % b.capacity]

RB_put_panics(b) == b.write_index >= Len(b.buffer)

RB_get_panics(b) == b.capacity = 0

RB_set_index_panics(b) == b.capacity = 0

\* the two slots get_frac(num / den) reads: <<slot of i0, slot of i1>>
RB_frac_slots(b, num, den) ==
    LET whole == num \div den
        i0 == whole % b.capacity
        i1 == (i0 + 1) % b.capacity
    IN  <<(b.read_index + i0) % b.capacity, (b.read_index + i1) % b.capacity>>

\* get_frac(offset), offset = num / den >= 0: the linear interpolation
\* between the slots floor(offset) and floor(offset) + 1 past read_index,
\* (1 - frac) * buffer[i0] + frac * buffer[i1].  The products are exact for
\* the samples fed here (multiples of den).
RB_get_frac(b, num, den) ==
    LET frac == num % den
        s0 == RB_frac_slots(b, num, den)[1]
        s1 == RB_frac_slots(b, num, den)[2]
    IN  ((den - frac) * b.buffer[s0 + 1] + frac * b.buffer[s1 + 1]) \div den

RB_get_frac_panics(b) == b.capacity = 0

----------------------------------------------------------------------------
(* The RingBuffer under its whole API: RingBuffer::new(C), then any of      *)
(* reset, push, put, pop, peek, get, get_frac and the cursor setters.       *)
(* A call other than push and pop that changes the buffer makes the run     *)
(* "mixed".                                                                 *)

\* the calls made so far are fewer than MaxCalls
MoreCalls == Len(pushed) + Len(popped) + calls < MaxCalls

\* a call of the API that returns res and leaves the buffer as after
RingCall(op, arg, panics, after, res) ==
    /\ sut = "ring" /\ ~panicked
    /\ MoreCalls
    /\ lastOp' = op /\ lastArg' = arg
    /\ IF panics
       THEN /\ panicked' = TRUE
            /\ lastRes' = ResPanic
            /\ UNCHANGED ringVars
       ELSE /\ rb' = after
            /\ lastRes' = res
            /\ phase' = IF after = rb THEN phase ELSE "mixed"
            /\ calls' = calls + 1
            /\ UNCHANGED <<pushed, popped, panicked>>
    /\ UNCHANGED <<sut, combVars, vibVars>>

ResetRing == RingCall("reset", <<>>, FALSE, RB_reset(rb), ResUnit)

Put(value) == RingCall("put", <<value>>, RB_put_panics(rb), RB_put(rb, value), ResUnit)

Peek == RingCall("peek", <<>>, RB_peek_panics(rb), rb, ResValue(RB_peek(rb)))

Get(offset) ==
    RingCall("get", <<offset>>, RB_get_panics(rb), rb, ResValue(RB_get(rb, offset)))

\* get_frac(num / FracOne)
GetFrac(num) ==
    RingCall("get_frac", <<num>>, RB_get_frac_panics(rb), rb,
             ResValue(RB_get_frac(rb, num, FracOne)))

SetReadIndex(index) ==
    RingCall("set_read_index", <<index>>, RB_set_index_panics(rb),
             RB_set_read_index(rb, index), ResUnit)

SetWriteIndex(index) ==
    RingCall("set_write_index", <<index>>, RB_set_index_panics(rb),
             RB_set_write_index(rb, index), ResUnit)

\* the samples written: multiples of FracOne, a fresh one for each push
FreshVal == (Len(pushed) + 1) * FracOne
PutVal == (MaxPush + 1) * FracOne
Offsets == 0..(MaxCap + 1)
FracOffsets == 0..((MaxCap + 1) * FracOne)
Indices == 0..(MaxCap + 1)

NextRingApi ==
    \/ MoreCalls /\ Push(FreshVal)
    \/ MoreCalls /\ Pop
    \/ ResetRing
    \/ Put(PutVal)
    \/ Peek
    \/ \E offset \in Offsets : Get(offset)
    \/ \E num \in FracOffsets : GetFrac(num)
    \/ \E index \in Indices : SetReadIndex(index)
    \/ \E index \in Indices : SetWriteIndex(index)

SpecRingApi == InitRing /\ [][NextRingApi]_vars

----------------------------------------------------------------------------
(* C14: pop on an empty buffer returns the zero value and changes neither   *)
(* cursor nor len; pop on a non-empty buffer returns the value at           *)
(* read_index, advances read_index by one modulo capacity and decrements    *)
(* len by one, the slots and write_index staying as they were.              *)

C14_Pop ==
    [][(sut = "ring" /\ lastOp' = "pop" /\ ~panicked')
       => IF RB_len(rb) = 0
          THEN lastRes' = ResValue(0) /\ rb' = rb
          ELSE /\ lastRes' = ResValue(rb.buffer[rb.read_index + 1])
               /\ rb'.read_index = (rb.read_index + 1) % rb.capacity
               /\ RB_len(rb') = RB_len(rb) - 1
               /\ rb'.write_index = rb.write_index
               /\ rb'.buffer = rb.buffer]_vars

\* one value pushed; the first pop returned it, the second found the buffer empty
C14_Witness ==
    /\ sut = "ring" /\ lastOp = "pop" /\ lastRes = ResValue(0)
    /\ rb.capacity = 2
    /\ pushed = <<FracOne>> /\ popped = <<FracOne, 0>>
    /\ rb.read_index = 1 /\ RB_len(rb) = 0

----------------------------------------------------------------------------
(* C15: for every capacity C >= 1, in every state reached by new, reset,    *)
(* push, put, pop, peek, get, set_read_index and set_write_index:           *)
(* 0 <= read_index < C, 0 <= write_index < C and 0 <= len <= C; and a push  *)
(* on a full buffer leaves len = C.                                         *)

RingInRange(b) ==
    b.capacity >= 1
    => /\ b.read_index \in 0..(b.capacity - 1)
       /\ b.write_index \in 0..(b.capacity - 1)
       /\ RB_len(b) \in 0..b.capacity

C15_CursorsInRange ==
    [][sut = "ring"
       => /\ RingInRange(rb) /\ RingInRange(rb')
          /\ (lastOp' = "push" /\ ~panicked' /\ RB_len(rb) = rb.capacity)
             => RB_len(rb') = rb.capacity]_vars

\* capacity 2, three pushes (the third on a full buffer), then set_read_index(3)
C15_Witness ==
    /\ sut = "ring" /\ rb.capacity = 2
    /\ Len(pushed) = 3 /\ RB_len(rb) = 2
    /\ lastOp = "set_read_index" /\ lastArg = <<3>>
    /\ rb.read_index = 1

----------------------------------------------------------------------------
(* C16: get(offset) returns the slot (read_index + offset) mod capacity and *)
(* changes nothing; on a buffer that only push has written, with at least   *)
(* capacity values pushed, get(i) for 0 <= i < capacity returns the         *)
(* (i+1)-th oldest of the values retained.                                  *)

C16_Get ==
    [][(sut = "ring" /\ lastOp' = "get" /\ ~panicked')
       => /\ lastRes' = ResValue(rb.buffer[((rb.read_index + lastArg'[1]) % rb.capacity) + 1])
          /\ rb' = rb
          /\ (phase = "pushing" /\ Len(pushed) >= rb.capacity /\ lastArg'[1] < rb.capacity)
             => lastRes'.value = LastPushed(rb.capacity)[lastArg'[1] + 1]]_vars

\* capacity 3, four values pushed: get(2) is the newest, the fourth
C16_Witness ==
    /\ sut = "ring" /\ phase = "pushing" /\ rb.capacity = 3
    /\ Len(pushed) = 4 /\ rb.read_index = 1
    /\ lastOp = "get" /\ lastArg = <<2>>
    /\ lastRes = ResValue(4 * FracOne)

----------------------------------------------------------------------------
(* C17: for every integer offset k >= 0, offsets that wrap past the         *)
(* capacity included, get_frac(k) returns exactly what get(k) returns, and  *)
(* get_frac changes nothing.                                                *)

----------------------------------------------------------------------------
(* C18: a buffer of capacity 0 is rejected at creation: no reachable        *)
(* RingBuffer, and no delay line of a CombFilter (one built with a maximum  *)
(* delay shorter than one sample included), has capacity 0, and no call     *)
(* indexes into or takes a modulo by a zero-capacity buffer (panics).       *)

C18_ZeroCapacityRejected ==
    /\ sut = "ring" => rb.capacity >= 1
    /\ sut = "comb" => \A c \in 1..Len(cf.delay_lines) : cf.delay_lines[c].capacity >= 1
    /\ ~panicked

----------------------------------------------------------------------------
(* src/src/lfo.rs, the wavetable and tick.  new pushes wavetable_size       *)
(* samples sin(2 pi i / wavetable_size) into a buffer of that capacity, so  *)
(* read_index stays 0 and get(index) is slot index.  The sine is held       *)
(* rounded to 1/SinOne, computed by Bhaskara's rational approximation       *)
(* 16 x (pi - x) / (5 pi^2 - 4 x (pi - x)) (exact at 0, pi/6, pi/2, within  *)
(* 0.002 elsewhere); phases are multiples of 1/PhaseOne.                    *)

\* sin(pi * i / half) for 0 <= i <= half, in units of 1/SinOne
HalfSine(i, half) ==
    LET p == i * (half - i)
        q == 5 * half * half - 4 * p
    IN  (2 * 16 * p * SinOne + q) \div (2 * q)

\* slot i of the wavetable of an LFO of size slots
Wavetable(i, size) ==
    IF 2 * i <= size
    THEN HalfSine(i, size \div 2)
    ELSE -HalfSine(i - size \div 2, size \div 2)

\* (phase * size) as usize: the whole part, a negative value saturates to 0
AsIndex(scaled) == IF scaled <= 0 THEN 0 ELSE scaled \div PhaseOne

\* tick: [lfo: the LFO after, value: wavetable sample * amplitude, in units of 1/ModOne]
LFO_tick(lfo) ==
    LET wavetable_size == lfo.wavetable_size
        index == AsIndex(lfo.current_phase * wavetable_size) % wavetable_size
        value == Wavetable(index, wavetable_size) * lfo.amplitude
        advanced == lfo.current_phase + lfo.phase_increment
    IN  [lfo |-> [lfo EXCEPT !.current_phase =
                    IF advanced >= PhaseOne THEN advanced - PhaseOne ELSE advanced],
         value |-> value]

----------------------------------------------------------------------------
(* src/src/vibrato.rs, process.  The tap offset is held in units of        *)
(* 1/TapOne of a sample; the samples fed are multiples of TapOne.           *)

\* 1.0 + delay * sample_rate + depth * sample_rate * modulation
TapPoint(v, modulation) ==
    TapOne + v.delay * v.sample_rate * ModOne + v.depth * v.sample_rate * modulation

\* process_sample: [vib: the Vibrato after, out: the output sample]
Vibrato_process_sample(v, input_sample, channel) ==
    LET delay_line == RB_push(v.delay_lines[channel], input_sample)
        ticked == LFO_tick(v.lfos[channel])
        tap_point == TapPoint(v, ticked.value)
    IN  [vib |-> [v EXCEPT !.delay_lines[channel] = delay_line,
                           !.lfos[channel] = ticked.lfo],
         out |-> RB_get_frac(delay_line, tap_point, TapOne)]

\* the inner map over one channel's samples, from sample k on
RECURSIVE VibratoChannelFrom(_, _, _, _)
VibratoChannelFrom(acc, channel, samples, k) ==
    IF k > Len(samples)
    THEN acc
    ELSE LET s == Vibrato_process_sample(acc.vib, samples[k], channel)
         IN  VibratoChannelFrom([vib |-> s.vib, out |-> Append(acc.out, s.out)],
                                channel, samples, k + 1)

\* the outer map over the channels of the input, from channel c on
RECURSIVE VibratoChannelsFrom(_, _, _)
VibratoChannelsFrom(acc, input, c) ==
    IF c > Len(input)
    THEN acc
    ELSE LET r == VibratoChannelFrom([vib |-> acc.vib, out |-> <<>>], c, input[c], 1)
         IN  VibratoChannelsFrom([vib |-> r.vib, output |-> Append(acc.output, r.out)],
                                 input, c + 1)

\* process that restarts every LFO at phase 0 for each block
Vibrato_process_phase_reset(v, input) ==
    VibratoChannelsFrom(
        [vib |-> [v EXCEPT !.lfos = [c \in 1..Len(v.lfos) |->
                                        [v.lfos[c] EXCEPT !.current_phase = 0]]],
         output |-> <<>>], input, 1)

\* process: [vib: the Vibrato after, output: one Vec per input channel]
Vibrato_process(v, input) ==
    VibratoChannelsFrom([vib |-> v, output |-> <<>>], input, 1)

\* process indexes delay_lines[channel] for every channel of the input
Vibrato_process_panics(v, input) == Len(input) > Len(v.delay_lines)

----------------------------------------------------------------------------
(* The Vibrato under process: Vibrato::new, then process block after        *)
(* block.  xs and ys hold what process was fed and what it returned since   *)
(* new, fed the samples per channel.                                        *)

\* channel c of a history that may not have begun
ChannelSoFar(history, c) == IF c <= Len(history) THEN history[c] ELSE <<>>

VProcess(input) ==
    /\ sut = "vibrato" /\ ~panicked
    /\ vib # NoVibrato
    /\ lastOp' = "Vibrato::process" /\ lastArg' = <<BlockLen(input)>>
    /\ IF Vibrato_process_panics(vib, input)
       THEN /\ panicked' = TRUE
            /\ lastRes' = ResPanic
            /\ UNCHANGED <<vib, xs, ys, fed>>
       ELSE /\ vib' = Vibrato_process(vib, input).vib
            /\ xs' = [c \in 1..Len(input) |-> ChannelSoFar(xs, c) \o input[c]]
            /\ ys' = [c \in 1..Len(input) |->
                        ChannelSoFar(ys, c) \o Vibrato_process(vib, input).output[c]]
            /\ fed' = fed + BlockLen(input)
            /\ lastRes' = ResUnit
            /\ UNCHANGED panicked
    /\ UNCHANGED <<sut, cf, epoch, steady, ringVars, osc, ticks>>

NextVibrato ==
    \/ \E sample_rate \in SampleRates, delay \in VibTapTimes, depth \in VibTapTimes,
          mod_freq \in ModFreqs, amplitude \in Amplitudes, channels \in VibChannelCounts :
          VNew(sample_rate, delay, depth, mod_freq, amplitude, channels)
    \/ /\ vib # NoVibrato
       /\ \E input \in Blocks(Len(vib.delay_lines), ProcessLens(MaxSamples), VibSampleVals) :
             VProcess(input)

SpecVibrato == InitVibrato /\ [][NextVibrato]_vars

----------------------------------------------------------------------------
(* The Vibrato under parameter calls and process: Vibrato::new, then        *)
(* set_param and process of single samples in any order.                    *)

NextVibParam ==
    \/ \E sample_rate \in SampleRates, delay \in VibTapTimes, depth \in VibTapTimes,
          mod_freq \in ModFreqs, amplitude \in {GainOne}, channels \in VibChannelCounts :
          VNew(sample_rate, delay, depth, mod_freq, amplitude, channels)
    \/ \E value \in VibSetRates : VSetParam("SampleRate", value)
    \/ \E value \in VibTapTimes : VSetParam("Delay", value)
    \/ \E value \in VibTapTimes : VSetParam("Depth", value)
    \/ \E value \in ModFreqs : VSetParam("ModulationFrequency", value)
    \/ /\ vib # NoVibrato
       /\ \E input \in Blocks(Len(vib.delay_lines), ProcessLens(MaxParamSamples), {TapOne}) :
             VProcess(input)

SpecVibParam == InitVibrato /\ [][NextVibParam]_vars

----------------------------------------------------------------------------
(* C13: a Vibrato constructed with LFO amplitude 0 and delay * sample_rate  *)
(* = D an integer returns 0 for the first D samples of a channel and        *)
(* output[n] = input[n - D] for every n >= D, however long the input.       *)
(* (ys[c][n] is the sample of index n - 1.)                                 *)

DelaySamples(v) == (v.delay * v.sample_rate) \div TicksPerSec

C13_ZeroModulationDelay ==
    (sut = "vibrato" /\ vib # NoVibrato)
    => \A c \in 1..Len(ys) :
          (vib.lfos[c].amplitude = 0 /\ (vib.delay * vib.sample_rate) % TicksPerSec = 0)
          => \A n \in 1..Len(ys[c]) :
                ys[c][n] = IF n <= DelaySamples(vib) THEN 0 ELSE xs[c][n - DelaySamples(vib)]

----------------------------------------------------------------------------
(* C19: in process_sample the tap never lands on the sample just written:   *)
(* in every reachable state (delay line filling, or full and wrapping),     *)
(* with depth <= delay and the modulation in [-1, 1], no slot that          *)
(* get_frac(tap) reads with a non-zero weight is the slot the push of the   *)
(* same process_sample call wrote.                                          *)

\* the next process_sample call on channel c: the slot push writes, the two
\* slots get_frac(tap) reads, and the fractional part of the tap
NextTap(v, c) ==
    LET delay_line == RB_push(v.delay_lines[c], 0)
        tap_point == TapPoint(v, LFO_tick(v.lfos[c]).value)
    IN  [written |-> v.delay_lines[c].write_index,
         read |-> RB_frac_slots(delay_line, tap_point, TapOne),
         frac |-> tap_point % TapOne]

C19_TapBehindWrite ==
    (sut = "vibrato" /\ vib # NoVibrato /\ vib.depth <= vib.delay)
    => \A c \in 1..Len(vib.delay_lines) :
          /\ NextTap(vib, c).read[1] # NextTap(vib, c).written
          /\ NextTap(vib, c).frac # 0 => NextTap(vib, c).read[2] # NextTap(vib, c).written

----------------------------------------------------------------------------
(* C20: after construction and any sequence of successful set_param calls   *)
(* on Delay, Depth and SampleRate, for every modulation in [-1, 1] the tap  *)
(* 1 + delay * sample_rate + depth * sample_rate * modulation satisfies     *)
(* 1 <= floor(tap) <= capacity - 1.                                         *)

Modulations == (-ModOne)..ModOne

C20_TapWithinCapacity ==
    (sut = "vibrato" /\ vib # NoVibrato)
    => \A c \in 1..Len(vib.delay_lines) : \A modulation \in Modulations :
          /\ 1 <= TapPoint(vib, modulation) \div TapOne
          /\ TapPoint(vib, modulation) \div TapOne <= RB_capacity(vib.delay_lines[c]) - 1

----------------------------------------------------------------------------
(* C11: in every reachable state of a Vibrato (after a successful new and   *)
(* any sequence of set_param calls on SampleRate, Delay, Depth and          *)
(* ModulationFrequency, successful or not, and process calls between        *)
(* them), depth <= delay.                                                   *)

----------------------------------------------------------------------------
(* C12: for a freshly constructed Vibrato, a stream fed as consecutive      *)
(* blocks of any sizes yields, concatenated, exactly what the stream fed    *)
(* as one block yields, and each returned channel is as long as its input   *)
(* channel.                                                                 *)

\* the Vibrato as new left it: delay lines empty, LFOs at phase 0
VibratoFresh(v) ==
    [v EXCEPT !.delay_lines = [c \in 1..Len(v.delay_lines) |->
                                  RB_new(RB_capacity(v.delay_lines[c]))],
              !.lfos = [c \in 1..Len(v.lfos) |-> [v.lfos[c] EXCEPT !.current_phase = 0]]]

C12_BlockSizeInvariance ==
    (sut = "vibrato" /\ vib # NoVibrato /\ fed >= 1)
    => /\ ys = Vibrato_process(VibratoFresh(vib), xs).output
       /\ \A c \in 1..Len(xs) : Len(ys[c]) = Len(xs[c])

\* two channels, depth and amplitude non-zero, four samples fed in more than two blocks
C12_Witness ==
    /\ sut = "vibrato" /\ vib # NoVibrato
    /\ Len(xs) = 2 /\ fed = MaxSamples /\ lastArg = <<1>>
    /\ vib.depth >= 1 /\ vib.lfos[1].amplitude = GainOne
    /\ xs[1] # xs[2] /\ ys[1] # ys[2]
    /\ \E n \in 1..MaxSamples : ys[1][n] \notin {0, TapOne}

----------------------------------------------------------------------------
(* C21: in delay-line mode (a buffer written only by push and read only by  *)
(* get, get_frac and peek: no pop, no set_read_index) read_index stays at   *)
(* its initial value 0 after any number of pushes, pushes beyond the        *)
(* capacity included.                                                       *)

DelayLineMode == sut = "ring" /\ phase = "pushing" /\ rb.capacity >= 1 /\ ~panicked

C21_ReadIndexStaysZero == DelayLineMode => rb.read_index = 0

\* C21 amended: read_index is 0 while at most capacity values have been
\* pushed, and every push beyond the capacity advances it by one modulo
\* capacity: after n pushes it is max(0, n - capacity) mod capacity.
C21_ReadIndexFollowsOldest ==
    DelayLineMode
    => rb.read_index = IF Len(pushed) <= rb.capacity
                       THEN 0
                       ELSE (Len(pushed) - rb.capacity) % rb.capacity

\* capacity 3, four pushes, then a read by get_frac: read_index is 1
C21_Witness ==
    /\ DelayLineMode /\ rb.capacity = 3
    /\ Len(pushed) = 4 /\ rb.read_index = 1
    /\ lastOp = "get_frac"

----------------------------------------------------------------------------
(* C24: for a RingBuffer driven only by new, reset, push, pop, peek and     *)
(* get, write_index = (read_index + size) mod capacity in every reachable   *)
(* state: it holds after new, and each of these calls keeps it.  A single   *)
(* set_read_index or set_write_index call can break it.                     *)

CursorsAgree(b) ==
    b.capacity >= 1 => b.write_index = (b.read_index + RB_len(b)) % b.capacity

QueueCalls == {"push", "pop", "reset", "peek", "get"}

C24_QueueCallsKeepCursorsAgreeing ==
    [][sut = "ring"
       => /\ lastOp = "none" => CursorsAgree(rb)
          /\ (CursorsAgree(rb) /\ lastOp' \in QueueCalls) => CursorsAgree(rb')]_vars

\* pushes and pops, then one set_read_index call, the only call that is not
\* a push or a pop: the cursors no longer agree
C24_Witness ==
    /\ sut = "ring" /\ rb.capacity = 3 /\ ~panicked
    /\ Len(pushed) >= 2 /\ Len(popped) >= 1
    /\ lastOp = "set_read_index" /\ calls = 1
    /\ ~CursorsAgree(rb)

----------------------------------------------------------------------------
(* C25: under any interleaving of push and pop on a RingBuffer of capacity  *)
(* C >= 1 the buffer is a bounded FIFO queue with drop-oldest eviction.     *)
(* With Q the len() values found from read_index on: Q is empty after new;  *)
(* push(v) appends v to Q, first removing the head when |Q| = C; pop        *)
(* returns and removes the head of Q, or returns 0 and leaves Q empty.      *)

\* the queue a buffer holds: its size values from read_index on, oldest first
Retained(b) ==
    [i \in 1..RB_len(b) |-> b.buffer[((b.read_index + i - 1) % b.capacity) + 1]]

QueuePush(Q, value, C) ==
    IF Len(Q) = C THEN Append(Tail(Q), value) ELSE Append(Q, value)

QueuePop(Q) ==
    IF Q = <<>> THEN [value |-> 0, rest |-> Q] ELSE [value |-> Head(Q), rest |-> Tail(Q)]

C25_BoundedFifo ==
    [][(sut = "ring" /\ rb.capacity >= 1)
       => /\ lastOp = "none" => Retained(rb) = <<>>
          /\ lastOp' = "push"
             => Retained(rb') = QueuePush(Retained(rb), lastArg'[1], rb.capacity)
          /\ lastOp' = "pop"
             => /\ lastRes' = ResValue(QueuePop(Retained(rb)).value)
                /\ Retained(rb') = QueuePop(Retained(rb)).rest]_vars

\* capacity 2: push 1, 2, 3 (1 is dropped), pop 2, push 4, pop 3
C25_Witness ==
    /\ sut = "ring" /\ rb.capacity = 2 /\ phase = "mixed"
    /\ pushed = <<1, 2, 3, 4>> /\ popped = <<2, 3>>
    /\ lastOp = "pop" /\ Retained(rb) = <<4>>

----------------------------------------------------------------------------
(* C26: the delay bound of a CombFilter shrinks with every accepted change: *)
(* no call increases the delay-line capacity of any channel, all channels   *)
(* keep one capacity, an accepted set_param(Delay) of d samples leaves      *)
(* every capacity at d, and a request for more samples than the current     *)
(* capacity is rejected.  So once d samples have been accepted every later  *)
(* request for more than d is rejected, also one within the maximum delay   *)
(* given at construction.                                                   *)

C26_DelayBoundShrinks ==
    [][sut = "comb"
       => /\ Len(cf'.delay_lines) = Len(cf.delay_lines)
          /\ \A c \in 1..Len(cf.delay_lines) :
                /\ RB_capacity(cf'.delay_lines[c]) <= RB_capacity(cf.delay_lines[c])
                /\ RB_capacity(cf'.delay_lines[c]) = RB_capacity(cf'.delay_lines[1])
          /\ (lastOp' = "set_param(Delay)" /\ ~panicked')
             => LET delay_samples == AsUsize(lastArg'[1], cf.sample_rate)
                IN  /\ lastRes' = ResOk
                       => \A c \in 1..Len(cf.delay_lines) :
                             RB_capacity(cf'.delay_lines[c]) = delay_samples
                    /\ delay_samples > RB_capacity(cf.delay_lines[1])
                       => lastRes' = ResInvalidValue("Delay", lastArg'[1])]_vars

\* built for 3 samples, a delay of 1 sample accepted since, and now a
\* request for 2 samples refused
C26_Witness ==
    /\ sut = "comb" /\ Len(cf.delay_lines) = 2 /\ epoch = "set_delay"
    /\ Len(cf.buffer[1]) = 3
    /\ RB_capacity(cf.delay_lines[1]) = 1 /\ RB_capacity(cf.delay_lines[2]) = 1
    /\ lastOp = "set_param(Delay)" /\ AsUsize(lastArg[1], cf.sample_rate) = 2
    /\ lastRes = ResInvalidValue("Delay", lastArg[1])

----------------------------------------------------------------------------
(* The LFO driven by a caller: LFO::new, then set_frequency,                *)
(* set_amplitude, reset and tick in any order.  new and set_frequency       *)
(* validate nothing.                                                        *)

InitLfo ==
    /\ sut = "lfo"
    /\ IdleRing /\ IdleComb /\ IdleVibrato /\ IdleCall
    /\ panicked = FALSE

LNew(frequency, amplitude, sample_rate) ==
    /\ sut = "lfo" /\ osc = NoLfo
    /\ osc' = LFO_new(frequency, amplitude, sample_rate, WAVETABLESIZE)
    /\ lastOp' = "LFO::new" /\ lastArg' = <<frequency, amplitude, sample_rate>>
    /\ lastRes' = ResUnit
    /\ UNCHANGED <<sut, panicked, ringVars, combVars, vib, ticks>>

LSetFrequency(frequency) ==
    /\ sut = "lfo" /\ osc # NoLfo
    /\ osc' = LFO_set_frequency(osc, frequency)
    /\ lastOp' = "set_frequency" /\ lastArg' = <<frequency>> /\ lastRes' = ResUnit
    /\ UNCHANGED <<sut, panicked, ringVars, combVars, vib, ticks>>

LSetAmplitude(amplitude) ==
    /\ sut = "lfo" /\ osc # NoLfo
    /\ osc' = LFO_set_amplitude(osc, amplitude)
    /\ lastOp' = "set_amplitude" /\ lastArg' = <<amplitude>> /\ lastRes' = ResUnit
    /\ UNCHANGED <<sut, panicked, ringVars, combVars, vib, ticks>>

LReset ==
    /\ sut = "lfo" /\ osc # NoLfo
    /\ osc' = LFO_reset(osc)
    /\ lastOp' = "reset" /\ lastArg' = <<>> /\ lastRes' = ResUnit
    /\ UNCHANGED <<sut, panicked, ringVars, combVars, vib, ticks>>

LTick ==
    /\ sut = "lfo" /\ osc # NoLfo
    /\ ticks < MaxTicks
    /\ osc' = LFO_tick(osc).lfo
    /\ ticks' = ticks + 1
    /\ lastOp' = "tick" /\ lastArg' = <<>> /\ lastRes' = ResValue(LFO_tick(osc).value)
    /\ UNCHANGED <<sut, panicked, ringVars, combVars, vib>>

NextLfo ==
    \/ \E frequency \in LfoFreqs, amplitude \in Amplitudes, sample_rate \in SampleRates :
          LNew(frequency, amplitude, sample_rate)
    \/ \E frequency \in LfoFreqs : LSetFrequency(frequency)
    \/ \E amplitude \in Amplitudes : LSetAmplitude(amplitude)
    \/ LReset
    \/ LTick

SpecLfo == InitLfo /\ [][NextLfo]_vars

----------------------------------------------------------------------------
(* C22: after every tick, whatever new, set_frequency, set_amplitude, reset *)
(* and tick calls came before, current_phase lies in [0, 1) and the         *)
(* wavetable index the next tick computes lies in [0, wavetable_size).      *)

\* the index the next tick reads
NextIndex(l) == AsIndex(l.current_phase * l.wavetable_size) % l.wavetable_size

C22_PhaseInUnitInterval ==
    (sut = "lfo" /\ lastOp = "tick")
    => /\ osc.current_phase >= 0 /\ osc.current_phase < PhaseOne
       /\ NextIndex(osc) \in 0..(osc.wavetable_size - 1)

----------------------------------------------------------------------------
(* Either effect under process alone: a CombFilter of gain 0.5 or a         *)
(* two-channel Vibrato, built and then fed block after block.               *)

InitChannels == InitCombWith(DelayTimes, {GainOne \div 2}) \/ InitVibrato

NextChannels ==
    \/ /\ sut = "comb"
       /\ \E input \in Blocks(Len(cf.delay_lines), ProcessLens(MaxSamples), SampleVals) :
             Process(input)
    \/ \E sample_rate \in SampleRates, delay \in VibTapTimes, depth \in VibTapTimes,
          amplitude \in Amplitudes :
          VNew(sample_rate, delay, depth, 1, amplitude, 2)
    \/ /\ vib # NoVibrato
       /\ \E input \in Blocks(Len(vib.delay_lines), ProcessLens(MaxSamples), VibSampleVals) :
             VProcess(input)

SpecChannels == InitChannels /\ [][NextChannels]_vars

----------------------------------------------------------------------------
(* C23: the output of channel c of a CombFilter or a Vibrato is a function  *)
(* of the parameters and of channel c's own input alone: whatever the       *)
(* other channels were fed and however the stream was cut into blocks, it   *)
(* is what an instance of the same parameters with that one channel         *)
(* returns for channel c's input as a single block.                         *)

\* channel c's input alone, in one block, through a fresh one-channel filter
SoloComb(c) ==
    CombFilter_process(
        [cf EXCEPT !.delay_lines = <<RB_new(RB_capacity(cf.delay_lines[c]))>>],
        <<xs[c]>>).output[1]

\* channel c's input alone, in one block, through a fresh one-channel Vibrato
SoloVibrato(c) ==
    Vibrato_process(
        [vib EXCEPT !.delay_lines = <<RB_new(RB_capacity(vib.delay_lines[c]))>>,
                    !.lfos = <<LFO_reset(vib.lfos[c])>>],
        <<xs[c]>>).output[1]

C23_ChannelIndependence ==
    /\ sut = "comb" => \A c \in 1..Len(xs) : ys[c] = SoloComb(c)
    /\ (sut = "vibrato" /\ vib # NoVibrato) => \A c \in 1..Len(xs) : ys[c] = SoloVibrato(c)

\* a two-channel IIR filter, the channels fed different samples in blocks
\* of one and two samples
C23_Witness ==
    /\ sut = "comb" /\ cf.filter_type = "IIR" /\ Len(xs) = 2
    /\ RB_capacity(cf.delay_lines[1]) >= 1
    /\ fed = MaxSamples /\ lastArg = <<1>>
    /\ xs[1] # xs[2] /\ ys[1] # ys[2]
    /\ \E n \in 1..MaxSamples : xs[1][n] = xs[2][n] /\ ys[1][n] # ys[2][n]

====
